---- MODULE Spec2Model ----
(***************************************************************************)
(* State-machine model of tree_structure.py (classes Node and Tree).       *)
(*                                                                         *)
(* A node is a record; node_dict maps identifiers to nodes (the Python     *)
(* dictionary is keyed by str(id): str/int are one-to-one on integers, and *)
(* the key str(None) is never present, so a lookup of None is a KeyError). *)
(* The sample subset of a node is the sequence of its labels in feature    *)
(* order.  Probabilities are exact rationals [n, d] in lowest terms.       *)
(* fitting_tools (the split collaborator) is not part of the sources: its  *)
(* answers are drawn from bounded sets.                                    *)
(***************************************************************************)
EXTENDS Integers, Sequences, FiniteSets, TLC

\* ---------------------------------------------------------------- bounds
MaxSamples == 3
MaxSplits == 2
ProbUnits == 2
Labels == {0, 1}

None == -1

\* ------------------------------------------------------------ arithmetic
RECURSIVE GCD(_, _)
GCD(a, b) == IF b = 0 THEN a ELSE GCD(b, a % b)

Abs(x) == IF x < 0 THEN -x ELSE x

Rat(n, d) == LET g == GCD(Abs(n), d) IN [n |-> n \div g, d |-> d \div g]

Zero == Rat(0, 1)
One == Rat(1, 1)

RAdd(a, b) == Rat(a.n * b.d + b.n * a.d, a.d * b.d)
RSub(a, b) == Rat(a.n * b.d - b.n * a.d, a.d * b.d)
RMul(a, b) == Rat(a.n * b.n, a.d * b.d)
RDivInt(a, k) == IF k < 0 THEN Rat(-a.n, a.d * (-k)) ELSE Rat(a.n, a.d * k)
RLess(a, b) == a.n * b.d < b.n * a.d
RLeq(a, b) == a.n * b.d <= b.n * a.d

Range(s) == {s[k] : k \in 1..Len(s)}

SetMax(S) == CHOOSE x \in S : \A y \in S : y <= x

RMax(s) == CHOOSE x \in Range(s) : \A y \in Range(s) : RLeq(y, x)

RECURSIVE RSum(_)
RSum(s) == IF Len(s) = 0 THEN Zero ELSE RAdd(RSum(SubSeq(s, 1, Len(s) - 1)), s[Len(s)])

RECURSIVE SortedSeq(_)
SortedSeq(S) == IF S = {} THEN <<>>
                ELSE LET m == CHOOSE x \in S : \A y \in S : x <= y
                     IN <<m>> \o SortedSeq(S \ {m})

\* list.remove(x): drops the first occurrence of x
RECURSIVE ListRemove(_, _)
ListRemove(s, x) == IF Len(s) = 0 THEN s
                    ELSE IF Head(s) = x THEN Tail(s)
                    ELSE <<Head(s)>> \o ListRemove(Tail(s), x)

RECURSIVE ListRemoveAll(_, _)
ListRemoveAll(s, xs) == IF Len(xs) = 0 THEN s
                        ELSE ListRemoveAll(ListRemove(s, Head(xs)), Tail(xs))

Count(s, x) == Cardinality({k \in 1..Len(s) : s[k] = x})

\* ------------------------------------------------------------------ Node
Node(labels, is_stopped, reach_prob, class_prob, parent) ==
    [left |-> None, right |-> None, parent |-> parent, labels |-> labels,
     is_stopped |-> is_stopped, reach_prob |-> reach_prob, class_prob |-> class_prob]

compute_error_rate(node) == RSub(One, RMax(node.class_prob))

\* Python truth value of an identifier-or-None field ("if node.left:")
Truthy(x) == x # None /\ x # 0

\* len(np.unique(labels)) == 1
IsPure(labels) == Cardinality(Range(labels)) = 1

VARIABLES node_dict, leaf_inds, symbols, pc, max_key, inds_to_remove, inds_to_add,
          fidx, T, seq_tree, ret, ever_ids, reused_ids, nsplits

vars == <<node_dict, leaf_inds, symbols, pc, max_key, inds_to_remove, inds_to_add,
          fidx, T, seq_tree, ret, ever_ids, reused_ids, nsplits>>

fitLocals == <<max_key, inds_to_remove, inds_to_add, fidx>>
ccsLocals == <<T, seq_tree>>

\* ---------------------------------------------------------- call results
NoTree == [node_dict |-> <<>>, leaf_inds |-> <<>>]

Result(op, arg, kind, exc, out) ==
    [op |-> op, arg |-> arg, kind |-> kind, exc |-> exc, out |-> out,
     risk |-> Zero, leaves |-> <<>>, sibs |-> <<>>, trees |-> <<>>, count |-> 0]

NoResult == Result("", None, "", "", "")

\* ------------------------------------------------------- Tree.__init__
DatasetsUpTo(m) == UNION {[1..n -> Labels] : n \in 1..m}

Datasets == DatasetsUpTo(MaxSamples)

\* the pruning sequence needs a tree with two internal nodes below the root
DeepDatasets == DatasetsUpTo(MaxSamples + 1)

RootClassProb(labels) ==
    LET syms == SortedSeq(Range(labels))
    IN [k \in 1..Len(syms) |-> Rat(Count(labels, syms[k]), Len(labels))]

Construct(D) ==
    \E labels \in D :
        /\ node_dict = (0 :> Node(labels, IsPure(labels), One, RootClassProb(labels), None))
        /\ leaf_inds = <<0>>
        /\ symbols = SortedSeq(Range(labels))
        /\ pc = "done"
        /\ max_key = 0
        /\ inds_to_remove = <<>>
        /\ inds_to_add = <<>>
        /\ fidx = 0
        /\ T = NoTree
        /\ seq_tree = <<>>
        /\ ret = Result("__init__", None, "none", "", "")
        /\ ever_ids = {0}
        /\ reused_ids = {}
        /\ nsplits = 0

Init == Construct(Datasets)

InitDeep == Construct(DeepDatasets)

\* ------------------------------------------------------- fit_full_tree
check_full_stopped == \A k \in 1..Len(leaf_inds) : node_dict[leaf_inds[k]].is_stopped

\* fitting_tools.compute_probs_KDE: class posteriors of a child; the code reads only
\* max(class_prob), so the larger entry is put first
ClassProbsIn(u) == {<<Rat(k, u), Rat(u - k, u)>> : k \in ((u + 1) \div 2)..u}

ClassProbChoices == ClassProbsIn(ProbUnits)

DeepClassProbChoices == ClassProbsIn(2 * ProbUnits)

\* fitting_tools.compute_probs_KDE: the two branch probabilities
BranchChoices == {<<Rat(1, 2), Rat(1, 2)>>}

\* fitting_tools.filter_data under the two rule sets of a threshold split: the
\* first cut samples go left, the others right
StrictCuts(labels) == 1..(Len(labels) - 1)

\* a threshold that may lie at or beyond the range of the leaf's data, so that one
\* side gets no sample
AnyCuts(labels) == 0..Len(labels)

MaxId == 2 * MaxSplits

DeepMaxId == 2 * (MaxSplits + 1)

CallFit ==
    /\ pc = "idle"
    /\ max_key' = SetMax(DOMAIN node_dict)
    /\ pc' = "fit_while"
    /\ nsplits' = 0
    /\ ret' = Result("fit_full_tree", None, "running", "", "")
    /\ UNCHANGED <<node_dict, leaf_inds, symbols, inds_to_remove, inds_to_add, fidx,
                   T, seq_tree, ever_ids, reused_ids>>

FitReturn ==
    /\ pc = "fit_while"
    /\ check_full_stopped
    /\ pc' = "done"
    /\ ret' = [Result("fit_full_tree", None, "none", "", "") EXCEPT !.count = nsplits]
    /\ max_key' = 0
    /\ inds_to_remove' = <<>>
    /\ inds_to_add' = <<>>
    /\ fidx' = 0
    /\ nsplits' = 0
    /\ UNCHANGED <<node_dict, leaf_inds, symbols, ccsLocals, ever_ids, reused_ids>>

FitPassBegin ==
    /\ pc = "fit_while"
    /\ ~check_full_stopped
    /\ pc' = "fit_for"
    /\ inds_to_remove' = <<>>
    /\ inds_to_add' = <<>>
    /\ fidx' = 1
    /\ UNCHANGED <<node_dict, leaf_inds, symbols, max_key, ccsLocals, ret, ever_ids, reused_ids, nsplits>>

FitSkip ==
    /\ pc = "fit_for"
    /\ fidx <= Len(leaf_inds)
    /\ node_dict[leaf_inds[fidx]].is_stopped
    /\ fidx' = fidx + 1
    /\ UNCHANGED <<node_dict, leaf_inds, symbols, pc, max_key, inds_to_remove, inds_to_add,
                   ccsLocals, ret, ever_ids, reused_ids, nsplits>>

\* off by one: the first new key is the largest key in use
NewIds_FromMaxKey(mk) == <<mk, mk + 1>>

NewIds(mk) == <<mk + 1, mk + 2>>

Split(emptyChild, cap, probs) ==
    /\ pc = "fit_for"
    /\ fidx <= Len(leaf_inds)
    /\ ~node_dict[leaf_inds[fidx]].is_stopped
    /\ max_key + 2 <= cap
    /\ LET i == leaf_inds[fidx]
           leaf == node_dict[i]
           ids == NewIds(max_key)
           cuts == IF emptyChild THEN AnyCuts(leaf.labels) ELSE StrictCuts(leaf.labels)
       IN \E cut \in cuts, lp \in probs, rp \in probs, br \in BranchChoices :
            LET left_labels == SubSeq(leaf.labels, 1, cut)
                right_labels == SubSeq(leaf.labels, cut + 1, Len(leaf.labels))
                left_child == Node(left_labels, IsPure(left_labels),
                                   RMul(br[1], leaf.reach_prob), lp, i)
                right_child == Node(right_labels, IsPure(right_labels),
                                    RMul(br[2], leaf.reach_prob), rp, i)
            IN /\ node_dict' = [k \in DOMAIN node_dict \cup {ids[1], ids[2]} |->
                                  IF k = ids[1] THEN left_child
                                  ELSE IF k = ids[2] THEN right_child
                                  ELSE IF k = i THEN [leaf EXCEPT !.left = ids[1], !.right = ids[2]]
                                  ELSE node_dict[k]]
               /\ inds_to_remove' = Append(inds_to_remove, i)
               /\ inds_to_add' = inds_to_add \o ids
               /\ max_key' = max_key + 2
               /\ ever_ids' = ever_ids \cup {ids[1], ids[2]}
               /\ reused_ids' = reused_ids \cup ({ids[1], ids[2]} \cap ever_ids)
    /\ nsplits' = nsplits + 1
    /\ fidx' = fidx + 1
    /\ UNCHANGED <<leaf_inds, symbols, pc, ccsLocals, ret>>

\* a split in which both children receive samples
FitSplit == Split(FALSE, MaxId, ClassProbChoices)

\* a split in which a child may receive no sample
FitSplitAny == Split(TRUE, DeepMaxId, ClassProbChoices)

\* a split of the deeper trees, with finer class posteriors
FitSplitDeep == Split(FALSE, DeepMaxId, DeepClassProbChoices)

FitPassEnd ==
    /\ pc = "fit_for"
    /\ fidx > Len(leaf_inds)
    /\ leaf_inds' = ListRemoveAll(leaf_inds, inds_to_remove) \o inds_to_add
    /\ pc' = "fit_while"
    /\ UNCHANGED <<node_dict, symbols, fitLocals, ccsLocals, ret, ever_ids, reused_ids, nsplits>>


\* --------------------------------------------------- total_misclass_rate
LeafRisk(nd, k) == RMul(nd[k].reach_prob, compute_error_rate(nd[k]))

total_misclass_rate(nd, li) == RSum([k \in 1..Len(li) |-> LeafRisk(nd, li[k])])

\* --------------------------------------------------------- subtree_props
\* only the left child is queued
RECURSIVE PropsNewNodes_LeftOnly(_, _)
PropsNewNodes_LeftOnly(nd, rem_nodes) ==
    IF Len(rem_nodes) = 0 THEN <<>>
    ELSE LET node == nd[Head(rem_nodes)]
         IN (IF Truthy(node.left) THEN <<node.left>> ELSE <<>>)
            \o PropsNewNodes_LeftOnly(nd, Tail(rem_nodes))

\* one pass of "for key in rem_nodes" (lines 213-219): the keys queued in new_nodes
RECURSIVE PropsNewNodes(_, _)
PropsNewNodes(nd, rem_nodes) ==
    IF Len(rem_nodes) = 0 THEN <<>>
    ELSE LET node == nd[Head(rem_nodes)]
         IN (IF Truthy(node.left) THEN <<node.left, node.right>> ELSE <<>>)
            \o PropsNewNodes(nd, Tail(rem_nodes))

\* one pass of "for key in rem_nodes" (lines 213-219): the keys added to leaf_list
RECURSIVE PropsLevelLeaves(_, _)
PropsLevelLeaves(nd, rem_nodes) ==
    IF Len(rem_nodes) = 0 THEN <<>>
    ELSE (IF Truthy(nd[Head(rem_nodes)].left) THEN <<>> ELSE <<Head(rem_nodes)>>)
         \o PropsLevelLeaves(nd, Tail(rem_nodes))

AllPresent(nd, keys) == \A k \in 1..Len(keys) : keys[k] \in DOMAIN nd

RECURSIVE SubtreeDescend(_, _, _, _)
SubtreeDescend(nd, rem_nodes, risk, leaf_list) ==
    IF Len(rem_nodes) = 0 THEN [exc |-> "", risk |-> risk, leaves |-> leaf_list]
    ELSE IF ~AllPresent(nd, rem_nodes) THEN [exc |-> "KeyError", risk |-> risk, leaves |-> leaf_list]
    ELSE LET lv == PropsLevelLeaves(nd, rem_nodes)
         IN SubtreeDescend(nd, PropsNewNodes(nd, rem_nodes),
                           RAdd(risk, RSum([k \in 1..Len(lv) |-> LeafRisk(nd, lv[k])])),
                           leaf_list \o lv)

\* [kind, exc, out, risk, leaves]: kind "none" is the bare "return" (None)
subtree_props(nd, li, node_index) ==
    IF node_index \notin DOMAIN nd
    THEN [kind |-> "none", exc |-> "", out |-> "not_a_node", risk |-> Zero, leaves |-> <<>>]
    ELSE IF node_index \in Range(li)
    THEN [kind |-> "return", exc |-> "", out |-> "", risk |-> LeafRisk(nd, node_index),
          leaves |-> <<node_index>>]
    ELSE LET d == SubtreeDescend(nd, <<nd[node_index].left, nd[node_index].right>>, Zero, <<>>)
         IN IF d.exc # ""
            THEN [kind |-> "raise", exc |-> d.exc, out |-> "", risk |-> Zero, leaves |-> <<>>]
            ELSE [kind |-> "return", exc |-> "", out |-> "", risk |-> d.risk, leaves |-> d.leaves]

\* -------------------------------------------------------- remove_subtree
\* one pass of "for node_ind in rem_nodes" (lines 252-256): new_rem_nodes
RECURSIVE NewRemNodes(_, _)
NewRemNodes(nd, rem_nodes) ==
    IF Len(rem_nodes) = 0 THEN <<>>
    ELSE LET node_obj == nd[Head(rem_nodes)]
         IN (IF Truthy(node_obj.left) THEN <<node_obj.left, node_obj.right>> ELSE <<>>)
            \o NewRemNodes(nd, Tail(rem_nodes))

\* the while loop of lines 248-258: node_list, or a KeyError on a missing key
RECURSIVE CollectNodes(_, _, _)
CollectNodes(nd, rem_nodes, node_list) ==
    IF Len(rem_nodes) = 0 THEN [exc |-> "", list |-> node_list]
    ELSE IF ~AllPresent(nd, rem_nodes) THEN [exc |-> "KeyError", list |-> node_list]
    ELSE CollectNodes(nd, NewRemNodes(nd, rem_nodes), node_list \o rem_nodes)

Without(nd, k) == [j \in DOMAIN nd \ {k} |-> nd[j]]

\* the for loop of lines 261-264, one node after the other
RECURSIVE DeleteNodes(_, _, _)
DeleteNodes(nd, li, node_list) ==
    IF Len(node_list) = 0 THEN [exc |-> "", node_dict |-> nd, leaf_inds |-> li]
    ELSE IF Head(node_list) \notin DOMAIN nd
    THEN [exc |-> "KeyError", node_dict |-> nd, leaf_inds |-> li]
    ELSE DeleteNodes(Without(nd, Head(node_list)), ListRemove(li, Head(node_list)),
                     Tail(node_list))

\* the subtree's root is not put back into the leaf list
MakeLeaf_NotListed(nd, li, node_index) ==
    [node_dict |-> [nd EXCEPT ![node_index].left = None, ![node_index].right = None],
     leaf_inds |-> li]

MakeLeaf(nd, li, node_index) ==
    [node_dict |-> [nd EXCEPT ![node_index].left = None, ![node_index].right = None],
     leaf_inds |-> Append(li, node_index)]

\* the two early returns of lines 238-243, without the test for a leaf
EarlyReturn_NoLeafTest(nd, li, node_index) ==
    IF node_index \notin DOMAIN nd THEN "not_a_node" ELSE ""

\* the two early returns of lines 238-243: the message printed, "" to go on
EarlyReturn(nd, li, node_index) ==
    IF node_index \notin DOMAIN nd THEN "not_a_node"
    ELSE IF node_index \in Range(li) THEN "is_a_leaf"
    ELSE ""

\* [kind, exc, out, node_dict, leaf_inds]
remove_subtree(nd, li, node_index) ==
    IF EarlyReturn(nd, li, node_index) # ""
    THEN [kind |-> "none", exc |-> "", out |-> EarlyReturn(nd, li, node_index),
          node_dict |-> nd, leaf_inds |-> li]
    ELSE LET c == CollectNodes(nd, <<nd[node_index].left, nd[node_index].right>>, <<>>)
         IN IF c.exc # ""
            THEN [kind |-> "raise", exc |-> c.exc, out |-> "", node_dict |-> nd, leaf_inds |-> li]
            ELSE LET d == DeleteNodes(nd, li, c.list)
                 IN IF d.exc # ""
                    THEN [kind |-> "raise", exc |-> d.exc, out |-> "",
                          node_dict |-> d.node_dict, leaf_inds |-> d.leaf_inds]
                    ELSE LET m == MakeLeaf(d.node_dict, d.leaf_inds, node_index)
                         IN [kind |-> "none", exc |-> "", out |-> "",
                             node_dict |-> m.node_dict, leaf_inds |-> m.leaf_inds]

\* --------------------------------------------------------- leaf_siblings
OtherChild(parent, curr_leaf_ind) ==
    IF curr_leaf_ind = parent.left THEN parent.right ELSE parent.left

RECURSIVE SiblingLoop(_, _, _)
SiblingLoop(nd, not_visited, siblings) ==
    IF Len(not_visited) = 0 THEN [exc |-> "", sibs |-> siblings]
    ELSE LET curr_leaf_ind == Head(not_visited)
         IN IF curr_leaf_ind \notin DOMAIN nd \/ nd[curr_leaf_ind].parent \notin DOMAIN nd
            THEN [exc |-> "KeyError", sibs |-> siblings]
            ELSE LET other_child_ind == OtherChild(nd[nd[curr_leaf_ind].parent], curr_leaf_ind)
                 IN IF other_child_ind \in Range(not_visited)
                    THEN SiblingLoop(nd,
                             ListRemove(ListRemove(not_visited, curr_leaf_ind), other_child_ind),
                             Append(siblings, <<curr_leaf_ind, other_child_ind>>))
                    ELSE SiblingLoop(nd, ListRemove(not_visited, curr_leaf_ind), siblings)

leaf_siblings(nd, li) == SiblingLoop(nd, li, <<>>)

\* ---------------------------------------------------- cut_useless_leaves
av_rate(nd, leaves) ==
    RDivInt(RAdd(RMul(compute_error_rate(nd[leaves[1]]), nd[leaves[1]].reach_prob),
                 RMul(compute_error_rate(nd[leaves[2]]), nd[leaves[2]].reach_prob)), 2)

IsUseless(nd, leaves) ==
    compute_error_rate(nd[nd[leaves[1]].parent]) = av_rate(nd, leaves)

RECURSIVE SibsToRemove(_, _)
SibsToRemove(nd, sibs) ==
    IF Len(sibs) = 0 THEN <<>>
    ELSE (IF IsUseless(nd, Head(sibs)) THEN Head(sibs) ELSE <<>>)
         \o SibsToRemove(nd, Tail(sibs))

RECURSIVE DeleteLeaves(_, _, _)
DeleteLeaves(nd, li, to_remove) ==
    IF Len(to_remove) = 0 THEN [node_dict |-> nd, leaf_inds |-> li]
    ELSE DeleteLeaves(Without(nd, Head(to_remove)), ListRemove(li, Head(to_remove)),
                      Tail(to_remove))

\* [kind, exc, count, node_dict, leaf_inds]
cut_useless_leaves(nd, li) ==
    LET s == leaf_siblings(nd, li)
    IN IF s.exc # ""
       THEN [kind |-> "raise", exc |-> s.exc, count |-> 0, removed |-> <<>>,
             node_dict |-> nd, leaf_inds |-> li]
       ELSE LET sibs_to_remove == SibsToRemove(nd, s.sibs)
                d == DeleteLeaves(nd, li, sibs_to_remove)
            IN [kind |-> "none", exc |-> "", count |-> Len(sibs_to_remove),
                removed |-> sibs_to_remove,
                node_dict |-> d.node_dict, leaf_inds |-> d.leaf_inds]

\* ------------------------------------------------------ the entry points
Ids == 0..(DeepMaxId + 1)

CallTotalMisclassRate ==
    /\ pc = "idle"
    /\ pc' = "done"
    /\ ret' = [Result("total_misclass_rate", None, "return", "", "")
                 EXCEPT !.risk = total_misclass_rate(node_dict, leaf_inds)]
    /\ UNCHANGED <<node_dict, leaf_inds, symbols, fitLocals, ccsLocals, ever_ids, reused_ids, nsplits>>

CallSubtreeProps ==
    /\ pc = "idle"
    /\ pc' = "done"
    /\ \E node_index \in Ids :
         LET r == subtree_props(node_dict, leaf_inds, node_index)
         IN ret' = [Result("subtree_props", node_index, r.kind, r.exc, r.out)
                      EXCEPT !.risk = r.risk, !.leaves = r.leaves]
    /\ UNCHANGED <<node_dict, leaf_inds, symbols, fitLocals, ccsLocals, ever_ids, reused_ids, nsplits>>

CallRemoveSubtree ==
    /\ pc = "idle"
    /\ pc' = "done"
    /\ \E node_index \in Ids :
         LET r == remove_subtree(node_dict, leaf_inds, node_index)
         IN /\ node_dict' = r.node_dict
            /\ leaf_inds' = r.leaf_inds
            /\ ret' = Result("remove_subtree", node_index, r.kind, r.exc, r.out)
    /\ UNCHANGED <<symbols, fitLocals, ccsLocals, ever_ids, reused_ids, nsplits>>

CallLeafSiblings ==
    /\ pc = "idle"
    /\ pc' = "done"
    /\ LET r == leaf_siblings(node_dict, leaf_inds)
       IN ret' = [Result("leaf_siblings", None, IF r.exc = "" THEN "return" ELSE "raise",
                         r.exc, "")
                    EXCEPT !.sibs = IF r.exc = "" THEN r.sibs ELSE <<>>]
    /\ UNCHANGED <<node_dict, leaf_inds, symbols, fitLocals, ccsLocals, ever_ids, reused_ids, nsplits>>

CallCutUselessLeaves ==
    /\ pc = "idle"
    /\ pc' = "done"
    /\ LET r == cut_useless_leaves(node_dict, leaf_inds)
       IN /\ node_dict' = r.node_dict
          /\ leaf_inds' = r.leaf_inds
          /\ ret' = [Result("cut_useless_leaves", None, r.kind, r.exc,
                            IF r.exc = "" THEN "siblings_removed" ELSE "")
                       EXCEPT !.count = r.count, !.leaves = r.removed]
    /\ UNCHANGED <<symbols, fitLocals, ccsLocals, ever_ids, reused_ids, nsplits>>

\* --------------------------------------------------- cost_complexity_seq
Tree(nd, li) == [node_dict |-> nd, leaf_inds |-> li]

\* the tree whose subtree_props line 355 reads: self, not the working copy T
PropsTree(self, Tw) == self

\* the body of the for loop of lines 350-366 for one key of T.node_dict
Link(self, Tw, key) ==
    IF key \in Range(Tw.leaf_inds) THEN [exc |-> "", inf |-> TRUE, v |-> Zero]
    ELSE LET node_error == compute_error_rate(Tw.node_dict[key])
             P == PropsTree(self, Tw)
             sp == subtree_props(P.node_dict, P.leaf_inds, key)
         IN IF sp.kind = "raise" THEN [exc |-> sp.exc, inf |-> TRUE, v |-> Zero]
            ELSE IF sp.kind = "none" THEN [exc |-> "TypeError", inf |-> TRUE, v |-> Zero]
            ELSE IF RLess(node_error, sp.risk) \/ Len(sp.leaves) = 1
            THEN [exc |-> "ValueError", inf |-> TRUE, v |-> Zero]
            ELSE [exc |-> "", inf |-> FALSE,
                  v |-> RDivInt(RSub(node_error, sp.risk), Len(sp.leaves) - 1)]

LinkLess(a, b) == ~a.inf /\ (b.inf \/ RLess(a.v, b.v))

Links(self, Tw) == [key \in DOMAIN Tw.node_dict |-> Link(self, Tw, key)]

\* np.argmin takes the first minimum in the order of T.node_dict.keys(), which the
\* language leaves open: any key of minimal link
ArgMin(links) == {k \in DOMAIN links : \A j \in DOMAIN links : ~LinkLess(links[j], links[k])}

CallCostComplexitySeq ==
    /\ pc = "idle"
    /\ LET r == cut_useless_leaves(node_dict, leaf_inds)
       IN IF r.exc # ""
          THEN /\ ret' = Result("cost_complexity_seq", None, "raise", r.exc, "")
               /\ pc' = "done"
               /\ UNCHANGED <<node_dict, leaf_inds, T, seq_tree>>
          ELSE /\ node_dict' = r.node_dict
               /\ leaf_inds' = r.leaf_inds
               /\ T' = Tree(r.node_dict, r.leaf_inds)
               /\ seq_tree' = <<Tree(r.node_dict, r.leaf_inds)>>
               /\ pc' = "ccs_while"
               /\ ret' = [Result("cost_complexity_seq", None, "running", "", "siblings_removed")
                            EXCEPT !.count = r.count]
    /\ UNCHANGED <<symbols, fitLocals, ever_ids, reused_ids, nsplits>>

CcsLeave(r) ==
    /\ ret' = r
    /\ pc' = "done"
    /\ T' = NoTree
    /\ seq_tree' = <<>>
    /\ UNCHANGED <<node_dict, leaf_inds, symbols, fitLocals, ever_ids, reused_ids, nsplits>>

\* an iteration of the while loop that raises while the links are computed
CcsRaise ==
    /\ pc = "ccs_while"
    /\ Cardinality(DOMAIN T.node_dict) > 1
    /\ LET links == Links(Tree(node_dict, leaf_inds), T)
       IN \E k \in DOMAIN links :
            /\ links[k].exc # ""
            /\ CcsLeave([Result("cost_complexity_seq", k, "raise", links[k].exc, "")
                           EXCEPT !.count = ret.count])

\* an iteration of the while loop that collapses the weakest link
CcsCollapse ==
    /\ pc = "ccs_while"
    /\ Cardinality(DOMAIN T.node_dict) > 1
    /\ LET links == Links(Tree(node_dict, leaf_inds), T)
       IN /\ \A k \in DOMAIN links : links[k].exc = ""
          /\ \E weakest_link \in ArgMin(links) :
               LET r == remove_subtree(T.node_dict, T.leaf_inds, weakest_link)
               IN IF r.exc # ""
                  THEN CcsLeave([Result("cost_complexity_seq", weakest_link, "raise", r.exc, "")
                                   EXCEPT !.count = ret.count])
                  ELSE /\ T' = Tree(r.node_dict, r.leaf_inds)
                       /\ seq_tree' = Append(seq_tree, Tree(r.node_dict, r.leaf_inds))
                       /\ UNCHANGED <<node_dict, leaf_inds, symbols, pc, fitLocals, ret,
                                      ever_ids, reused_ids, nsplits>>

CcsReturn ==
    /\ pc = "ccs_while"
    /\ Cardinality(DOMAIN T.node_dict) <= 1
    /\ CcsLeave([Result("cost_complexity_seq", None, "return", "", "")
                   EXCEPT !.trees = seq_tree, !.count = ret.count])

\* the caller has read the result of the call and goes on
Continue ==
    /\ pc = "done"
    /\ pc' = "idle"
    /\ ret' = NoResult
    /\ UNCHANGED <<node_dict, leaf_inds, symbols, fitLocals, ccsLocals, ever_ids, reused_ids,
                   nsplits>>

Ccs == CallCostComplexitySeq \/ CcsRaise \/ CcsCollapse \/ CcsReturn

FitControl == CallFit \/ FitReturn \/ FitPassBegin \/ FitSkip \/ FitPassEnd

\* every operation that changes the tree, in any order
Next == FitControl \/ FitSplit \/ CallRemoveSubtree \/ CallCutUselessLeaves \/ Ccs
        \/ Continue

Spec == Init /\ [][Next]_vars

\* growth, pruning and the three queries
NextQuery == FitControl \/ FitSplit \/ CallRemoveSubtree \/ CallTotalMisclassRate
             \/ CallSubtreeProps \/ CallLeafSiblings \/ Continue

SpecQuery == Init /\ [][NextQuery]_vars

\* growth alone, with a collaborator that may leave a child without samples
NextFit == FitControl \/ FitSplitAny \/ Continue

SpecFit == Init /\ [][NextFit]_vars

\* construction, growth and the pruning sequence on the deeper trees
NextDeep == FitControl \/ FitSplitDeep \/ Ccs \/ Continue

SpecDeep == InitDeep /\ [][NextDeep]_vars

\* ======================================================================
\* What the properties below speak of, defined from the parent fields and
\* the child fields of the nodes rather than by the code's own traversals
\* ======================================================================
Childless(nd, k) == nd[k].left = None /\ nd[k].right = None

RECURSIVE IsUnder(_, _, _)
\* k is t or a descendant of t, following the parent fields upwards
IsUnder(nd, t, k) ==
    \/ k = t
    \/ /\ k \in DOMAIN nd
       /\ nd[k].parent \in DOMAIN nd
       /\ IsUnder(nd, t, nd[k].parent)

StrictDescendants(nd, t) == {k \in DOMAIN nd : k # t /\ IsUnder(nd, t, k)}

LeavesUnder(nd, t) == {k \in DOMAIN nd : Childless(nd, k) /\ IsUnder(nd, t, k)}

\* reach probability times (1 - largest class posterior)
NodeRisk(nd, k) == RMul(nd[k].reach_prob, RSub(One, RMax(nd[k].class_prob)))

RECURSIVE RiskOf(_, _)
RiskOf(nd, S) == IF S = {} THEN Zero
                 ELSE LET k == CHOOSE x \in S : TRUE
                      IN RAdd(NodeRisk(nd, k), RiskOf(nd, S \ {k}))

ErrorOf(node) == RSub(One, RMax(node.class_prob))

InternalNodes(nd) == {k \in DOMAIN nd : ~Childless(nd, k)}

\* g(t) of the tree Tw, in Tw's own structure
LinkStrength(Tw, t) ==
    RDivInt(RSub(ErrorOf(Tw.node_dict[t]),
                 RiskOf(Tw.node_dict, LeavesUnder(Tw.node_dict, t))),
            Cardinality(LeavesUnder(Tw.node_dict, t)) - 1)

WeakestLinks(Tw) ==
    {t \in InternalNodes(Tw.node_dict) :
        \A u \in InternalNodes(Tw.node_dict) : ~RLess(LinkStrength(Tw, u), LinkStrength(Tw, t))}

IsPermutation(s, t) ==
    /\ Len(s) = Len(t)
    /\ \A x \in Range(s) \cup Range(t) : Count(s, x) = Count(t, x)

\* the unordered pairs of two distinct leaves with the same immediate parent
SiblingLeafPairs(nd, li) ==
    {pair \in SUBSET (Range(li) \cap DOMAIN nd) :
        \E a \in pair, b \in pair :
            /\ a # b
            /\ pair = {a, b}
            /\ nd[a].parent \in DOMAIN nd
            /\ nd[b].parent = nd[a].parent}

\* a sibling pair whose parent's error rate is the reach-weighted mean of its own
WeightedMeanEqualsParent(nd, pair) ==
    \E a \in pair, b \in pair :
        /\ a # b
        /\ RMul(ErrorOf(nd[nd[a].parent]), RAdd(nd[a].reach_prob, nd[b].reach_prob))
             = RAdd(NodeRisk(nd, a), NodeRisk(nd, b))

NodeCount(t) == Cardinality(DOMAIN t.node_dict)

\* b is a with one subtree collapsed into its root
OneSubtreeCollapsed(a, b) ==
    \E t \in InternalNodes(a.node_dict) :
        Range(b.leaf_inds) = (Range(a.leaf_inds) \ LeavesUnder(a.node_dict, t)) \cup {t}

\* the two identifiers a split has just put into inds_to_add
NewlyAllocated == {inds_to_add'[k] : k \in (Len(inds_to_add) + 1)..Len(inds_to_add')}

Allocates == pc = "fit_for" /\ nsplits' = nsplits + 1

\* ----------------------------------------------------------------------
\* C1: cost_complexity_seq on a grown tree returns a sequence of trees with
\* strictly decreasing node counts that ends in the root alone, each tree being
\* the one before it with one subtree collapsed into its root (the abort the code
\* itself raises when a subtree's risk exceeds its root's error, ValueError, is
\* left aside).
C1_PruningSequenceReturned ==
    (/\ pc = "done"
     /\ ret.op = "cost_complexity_seq"
     /\ ret.exc # "ValueError"
     /\ (ret.count > 0 \/ Cardinality(DOMAIN node_dict) > 1))
    => /\ ret.kind = "return"
       /\ Len(ret.trees) >= 1
       /\ DOMAIN ret.trees[Len(ret.trees)].node_dict = {0}
       /\ \A k \in 1..(Len(ret.trees) - 1) :
            /\ NodeCount(ret.trees[k + 1]) < NodeCount(ret.trees[k])
            /\ OneSubtreeCollapsed(ret.trees[k], ret.trees[k + 1])

\* C2: between calls, and after each call of fit_full_tree, remove_subtree,
\* cut_useless_leaves and cost_complexity_seq in any order, the identifiers in
\* leaf_inds are exactly those of the nodes of node_dict whose left and right are
\* None.
C2_LeafIndsAreTheChildlessNodes ==
    pc \in {"idle", "done", "ccs_while"}
    => Range(leaf_inds) = {k \in DOMAIN node_dict : Childless(node_dict, k)}

\* cut_useless_leaves has removed a sibling pair below a node that is not the root
C2_Witness ==
    /\ pc = "done"
    /\ ret.op = "cut_useless_leaves"
    /\ ret.count = 2
    /\ Cardinality(DOMAIN node_dict) = 3
    /\ C2_LeafIndsAreTheChildlessNodes

\* C3: a call remove_subtree(n) on a node n that is in node_dict and has children
\* leaves no strict descendant of n in node_dict or leaf_inds, n childless and
\* exactly once in leaf_inds, and every other node in node_dict.
C3_RemoveSubtreePostcondition ==
    [][\A n \in Ids :
         (/\ pc = "idle"
          /\ ret'.op = "remove_subtree"
          /\ ret'.arg = n
          /\ n \in DOMAIN node_dict
          /\ ~Childless(node_dict, n))
         => /\ StrictDescendants(node_dict, n) \cap (DOMAIN node_dict' \cup Range(leaf_inds')) = {}
            /\ n \in DOMAIN node_dict'
            /\ Childless(node_dict', n)
            /\ Count(leaf_inds', n) = 1
            /\ DOMAIN node_dict \ StrictDescendants(node_dict, n) \subseteq DOMAIN node_dict']_vars

\* C4: fit_full_tree makes at most as many splits as the tree has samples, whatever
\* subsets the collaborator returns, and on return every leaf holds one distinct
\* label.
C4_SplitsWithinSampleCount ==
    /\ nsplits <= Len(node_dict[0].labels)
    /\ (pc = "done" /\ ret.op = "fit_full_tree")
       => \A k \in 1..Len(leaf_inds) : IsPure(node_dict[leaf_inds[k]].labels)

\* a call in which a child received no sample does not return: the trees between
\* calls hold no node without samples
NoEmptyNodeBetweenCalls ==
    pc \in {"idle", "done"} => \A k \in DOMAIN node_dict : Len(node_dict[k].labels) > 0

\* C5: cut_useless_leaves removes exactly the sibling leaf pairs whose parent's
\* error rate equals the reach-probability-weighted mean of the two children's
\* error rates, and reports their number.
C5_CutsExactlyTheZeroGainPairs ==
    [][(pc = "idle" /\ ret'.op = "cut_useless_leaves" /\ ret'.kind # "raise")
         => LET claimed == UNION {pair \in SiblingLeafPairs(node_dict, leaf_inds) :
                                    WeightedMeanEqualsParent(node_dict, pair)}
            IN /\ DOMAIN node_dict \ DOMAIN node_dict' = claimed
               /\ ret'.count = Cardinality(claimed)]_vars

\* C6 as stated: an identifier allocated by fit_full_tree is above every identifier
\* in node_dict and has never been given to a node before, deleted nodes included.
C6_IdentifierNeverGivenTwice ==
    [][Allocates
         => /\ \A id \in NewlyAllocated : \A k \in DOMAIN node_dict : id > k
            /\ NewlyAllocated \cap ever_ids = {}]_vars

\* C6 as amended: an identifier allocated by fit_full_tree is above every
\* identifier in node_dict at that time, so that the two new nodes replace no node
\* of the tree; it may be the identifier of a node that pruning has deleted.
C6_NewIdentifiersAboveExisting ==
    [][Allocates
         => /\ Cardinality(NewlyAllocated) = 2
            /\ \A id \in NewlyAllocated : \A k \in DOMAIN node_dict : id > k
            /\ DOMAIN node_dict' = DOMAIN node_dict \cup NewlyAllocated]_vars

\* fit_full_tree has given the identifier of a deleted node to a new node
C6_Witness == pc = "done" /\ ret.op = "fit_full_tree" /\ reused_ids # {}

\* C7 as stated: subtree_props and remove_subtree report an identifier that is not
\* in node_dict by a typed failure, never by returning None.
C7_NotFoundIsATypedFailure ==
    (/\ pc = "done"
     /\ ret.op \in {"subtree_props", "remove_subtree"}
     /\ ret.arg \notin DOMAIN node_dict)
    => ret.kind = "raise"

\* C7 as amended: with an identifier that is not in node_dict both print the
\* "not a node" notice and return None; remove_subtree on a leaf prints the "is a
\* leaf" notice and returns None; in these cases node_dict and leaf_inds are
\* unchanged; a removal returns None too and prints nothing.
C7_NotFoundPrintsAndReturnsNone ==
    [][(pc = "idle" /\ ret'.op \in {"subtree_props", "remove_subtree"})
         => /\ ret'.arg \notin DOMAIN node_dict
               => /\ ret'.kind = "none"
                  /\ ret'.out = "not_a_node"
                  /\ node_dict' = node_dict /\ leaf_inds' = leaf_inds
            /\ (ret'.op = "remove_subtree" /\ ret'.arg \in Range(leaf_inds))
               => /\ ret'.kind = "none"
                  /\ ret'.out = "is_a_leaf"
                  /\ node_dict' = node_dict /\ leaf_inds' = leaf_inds
            /\ (ret'.op = "remove_subtree" /\ ret'.arg \in DOMAIN node_dict
                  /\ ret'.arg \notin Range(leaf_inds))
               => /\ ret'.kind = "none"
                  /\ ret'.out = ""
                  /\ node_dict' # node_dict]_vars

\* remove_subtree has been called on a grown tree with an identifier that is not in
\* node_dict, and has returned None
C7_Witness ==
    /\ pc = "done"
    /\ ret.op = "remove_subtree"
    /\ ret.arg \notin DOMAIN node_dict
    /\ ret.out = "not_a_node"
    /\ ret.kind = "none"
    /\ Cardinality(DOMAIN node_dict) > 1

\* C8: on a tree reached by construction, fit_full_tree and remove_subtree,
\* subtree_props(n) returns the summed risk of exactly the leaves at or below n and
\* lists each of them once; for the root the risk is total_misclass_rate() and the
\* list is a permutation of leaf_inds.
C8_SubtreePropsIsTheRiskOfTheLeavesBelow ==
    (pc = "done" /\ ret.op = "subtree_props" /\ ret.arg \in DOMAIN node_dict)
    => /\ ret.kind = "return"
       /\ ret.risk = RiskOf(node_dict, LeavesUnder(node_dict, ret.arg))
       /\ Range(ret.leaves) = LeavesUnder(node_dict, ret.arg)
       /\ Len(ret.leaves) = Cardinality(LeavesUnder(node_dict, ret.arg))
       /\ ret.arg = 0 => /\ ret.risk = total_misclass_rate(node_dict, leaf_inds)
                         /\ IsPermutation(ret.leaves, leaf_inds)

\* subtree_props has been called on the root of a tree with three leaves, on two
\* levels, that carry risk
C8_Witness ==
    /\ pc = "done"
    /\ ret.op = "subtree_props"
    /\ ret.arg = 0
    /\ Len(ret.leaves) = 3
    /\ ret.risk # Zero
    /\ \E k \in Range(ret.leaves) : node_dict[k].parent # 0

\* C9: leaf_siblings returns normally on every tree reached by construction,
\* fit_full_tree and remove_subtree, the root-only tree included, and returns
\* exactly the pairs of distinct leaves with a common parent, no leaf twice.
C9_LeafSiblingsReturnsTheSiblingPairs ==
    (pc = "done" /\ ret.op = "leaf_siblings")
    => /\ ret.kind = "return"
       /\ {Range(ret.sibs[k]) : k \in 1..Len(ret.sibs)} = SiblingLeafPairs(node_dict, leaf_inds)
       /\ \A x \in Range(leaf_inds) :
            Cardinality({k \in 1..Len(ret.sibs) : x \in Range(ret.sibs[k])}) <= 1

\* C10: every collapse of cost_complexity_seq takes an internal node of the working
\* tree T that minimises g(t) = (error(t) - R(T_t)) / (L(T_t) - 1) computed in T as it
\* is now; the collapsed node is the one appended to T.leaf_inds.
C10_CollapsesWeakestLinkOfT ==
    [][(pc = "ccs_while" /\ pc' = "ccs_while" /\ T' # T)
         => T'.leaf_inds[Len(T'.leaf_inds)] \in WeakestLinks(T)]_vars
====
